---- MODULE Spec2Model ----
(***************************************************************************)
(* Ticket-processing pipeline of the customer support agent                *)
(* (CustomerSupportAgent.processTicket and the steps it sequences).        *)
(*                                                                         *)
(* Two revisions of the agent are kept in the repository and both are      *)
(* modelled; the variable `variant` says which one a behaviour runs:       *)
(*   "A"  the revision with normalizeCustomer, whose generator returns ''  *)
(*        on failure and whose mail sender refuses an empty response;      *)
(*   "B"  "n8n customer support agent.js", the fallback-sentence revision  *)
(*        with the Reply / Full Conversation buttons.                      *)
(*                                                                         *)
(* Every external API call is two steps, the request and its outcome, so   *)
(* that runs interleave (and may hang) exactly at the await points.        *)
(***************************************************************************)
EXTENDS Integers, Sequences, FiniteSets, TLC

(***************************************************************************)
(* Bounds of the model.                                                    *)
(***************************************************************************)
NumRuns == 2
MaxParts == 3

Runs == 1..NumRuns

(***************************************************************************)
(* JavaScript values.  A scalar is a record [t, s]: t is its type and s    *)
(* the characters of a string (<<>> for the other types).  "null" stands   *)
(* for both null and undefined, "num" for a truthy value that is not a     *)
(* string (a number or an object taken from a JSON body).                  *)
(***************************************************************************)
NULL == [t |-> "null", s |-> <<>>]
Num == [t |-> "num", s |-> <<>>]
Str(chars) == [t |-> "str", s |-> chars]
EmptyStr == Str(<<>>)

IsString(v) == v.t = "str"

\* JavaScript truthiness: null, undefined and '' are falsy.
Truthy(v) == v.t = "num" \/ (v.t = "str" /\ v.s # <<>>)

\* a || b
Or(a, b) == IF Truthy(a) THEN a ELSE b

\* v + '' : string conversion of a scalar.
ToStr(v) ==
  CASE v.t = "str" -> v
    [] v.t = "num" -> Str(<<"5">>)
    [] OTHER -> Str(<<"n", "u", "l", "l">>)

\* A slice that keeps one character more.
SliceInclusive(chars, n) ==
  SubSeq(chars, 1, IF Len(chars) < n + 1 THEN Len(chars) ELSE n + 1)

\* String.prototype.slice(0, n) on the characters of a string.
Slice(chars, n) == SubSeq(chars, 1, IF Len(chars) < n THEN Len(chars) ELSE n)

RECURSIVE TrimStart(_)
TrimStart(chars) ==
  IF chars # <<>> /\ Head(chars) = " " THEN TrimStart(Tail(chars)) ELSE chars

RECURSIVE TrimEnd(_)
TrimEnd(chars) ==
  IF chars # <<>> /\ chars[Len(chars)] = " "
    THEN TrimEnd(SubSeq(chars, 1, Len(chars) - 1))
    ELSE chars

\* String.prototype.trim on the characters of a string.
Trim(chars) == TrimEnd(TrimStart(chars))

\* `v && v.trim()` as a condition; the caller has checked that v.trim exists.
NonBlank(v) == Truthy(v) /\ Trim(v.s) # <<>>

\* `v && v.trim()` raises a TypeError: v is truthy and has no trim method.
TrimThrows(v) == Truthy(v) /\ ~IsString(v)

(***************************************************************************)
(* Tickets.  A raw customer field is absent ("null"), an object with the   *)
(* nested aliases, a string, or another truthy primitive ("num").          *)
(***************************************************************************)
NoObj == [name |-> NULL, Name |-> NULL, email |-> NULL, Email |-> NULL]
NoCustomer == [k |-> "null", o |-> NoObj, text |-> ""]
CustObj(o) == [k |-> "obj", o |-> o, text |-> ""]
CustStr(text) == [k |-> "str", o |-> NoObj, text |-> text]
CustNum == [k |-> "num", o |-> NoObj, text |-> ""]

CustTruthy(c) == c.k \in {"obj", "num"} \/ (c.k = "str" /\ c.text # "")

Ana == Str(<<"A", "n", "a">>)
Bob == Str(<<"B", "o", "b">>)
AnaMail == Str(<<"a", "@", "x">>)
BobMail == Str(<<"b", "@", "x">>)

\* JSON.parse on the texts the model sends; any other text is a SyntaxError.
JSONParse(text) ==
  CASE text = "null" -> [ok |-> TRUE, v |-> NoCustomer]
    [] text = "5" -> [ok |-> TRUE, v |-> CustNum]
    [] text = "\"Ana\"" -> [ok |-> TRUE, v |-> CustStr("Ana")]
    [] text = "{}" -> [ok |-> TRUE, v |-> CustObj(NoObj)]
    [] text = "{\"name\":\"Ana\",\"email\":\"a@x\"}" ->
         [ok |-> TRUE, v |-> CustObj([NoObj EXCEPT !.name = Ana, !.email = AnaMail])]
    [] text = "{\"Name\":\"Bob\",\"Email\":\"b@x\"}" ->
         [ok |-> TRUE, v |-> CustObj([NoObj EXCEPT !.Name = Bob, !.Email = BobMail])]
    [] text = "{\"email\":\"a@x\"}" ->
         [ok |-> TRUE, v |-> CustObj([NoObj EXCEPT !.email = AnaMail])]
    [] OTHER -> [ok |-> FALSE, v |-> NoCustomer]

NoMessages == [k |-> "null", items |-> <<>>]
Messages(items) == [k |-> "arr", items |-> items]
NullMsg == [nul |-> TRUE, body |-> NULL, text |-> NULL]
Msg(body, text) == [nul |-> FALSE, body |-> body, text |-> text]

\* processTicket(undefined): every property read through ?. is undefined.
NoTicket ==
  [nul |-> TRUE, id |-> NULL, subject |-> NULL, source |-> NULL,
   customer |-> NoCustomer, Customer |-> NoCustomer,
   customer_name |-> NULL, CustomerName |-> NULL, Name |-> NULL, name |-> NULL,
   customer_email |-> NULL, CustomerEmail |-> NULL, Email |-> NULL, email |-> NULL,
   messages |-> NoMessages]

EmptyTicket == [NoTicket EXCEPT !.nul = FALSE]

\* ticket?.messages?.[0]
FirstMessage(ticket) ==
  IF ticket.messages.k = "arr" /\ ticket.messages.items # <<>>
    THEN ticket.messages.items[1]
    ELSE NullMsg

\* ticket?.messages?.[0]?.body || ticket?.messages?.[0]?.text || ''
FirstMessageRaw(ticket) ==
  Or(Or(FirstMessage(ticket).body, FirstMessage(ticket).text), EmptyStr)

\* (ticket.messages || []).map((msg) => msg.body ...) reads a property of null.
MessagesMapThrows(ticket) ==
  /\ ticket.messages.k = "arr"
  /\ \E i \in 1..Len(ticket.messages.items) : ticket.messages.items[i].nul

(***************************************************************************)
(* normalizeCustomer                                                       *)
(***************************************************************************)
\* let c = t.customer || t.Customer || {}
RawCustomer(ticket) ==
  IF CustTruthy(ticket.customer) THEN ticket.customer
  ELSE IF CustTruthy(ticket.Customer) THEN ticket.Customer
  ELSE CustObj(NoObj)

\* The parse without its catch block: a SyntaxError leaves no customer object.
ParsedCustomerNoCatch(ticket) ==
  LET c == RawCustomer(ticket) IN
  IF c.k = "str"
    THEN IF JSONParse(c.text).ok THEN JSONParse(c.text).v ELSE NoCustomer
    ELSE c

\* if (typeof c === 'string') { try { c = JSON.parse(c) } catch (e) { c = {} } }
ParsedCustomer(ticket) ==
  LET c == RawCustomer(ticket) IN
  IF c.k = "str"
    THEN IF JSONParse(c.text).ok THEN JSONParse(c.text).v ELSE CustObj(NoObj)
    ELSE c

\* c.name is read from null when the customer string is the JSON text null.
normalizeCustomerThrows(ticket) == ParsedCustomer(ticket).k = "null"

\* The aliases with the top-level fields ahead of the nested ones.
normalizeCustomerTopLevelFirst(ticket) ==
  LET c == ParsedCustomer(ticket).o
      name == Or(ticket.customer_name, Or(ticket.CustomerName, Or(ticket.Name,
                Or(ticket.name, Or(c.name, Or(c.Name, EmptyStr))))))
      email == Or(ticket.customer_email, Or(ticket.CustomerEmail, Or(ticket.Email,
                Or(ticket.email, Or(c.email, Or(c.Email, EmptyStr))))))
  IN [name |-> Or(name, EmptyStr), email |-> Or(email, EmptyStr)]

normalizeCustomer(ticket) ==
  LET c == ParsedCustomer(ticket).o
      name == Or(c.name, Or(c.Name, Or(ticket.customer_name,
                Or(ticket.CustomerName, Or(ticket.Name, Or(ticket.name, EmptyStr))))))
      email == Or(c.email, Or(c.Email, Or(ticket.customer_email,
                Or(ticket.CustomerEmail, Or(ticket.Email, Or(ticket.email, EmptyStr))))))
  IN [name |-> Or(name, EmptyStr), email |-> Or(email, EmptyStr)]

(***************************************************************************)
(* extractEmailBody.  A payload is [nul, hasParts, parts, data]: parts is   *)
(* the sequence payload.parts (hasParts: the property is present), data is  *)
(* payload.body.data; a part is [mimeType, data] with data its body.data.   *)
(***************************************************************************)
NoPayload == [nul |-> TRUE, hasParts |-> FALSE, parts |-> <<>>, data |-> NULL]

NoContent ==
  Str(<<"N", "o", " ", "c", "o", "n", "t", "e", "n", "t", " ",
        "a", "v", "a", "i", "l", "a", "b", "l", "e">>)

\* Buffer.from(data, 'base64').toString() on the data the model sends.
Base64Decode(chars) ==
  CASE chars = <<"a", "G", "k", "=">> -> <<"h", "i">>
    [] chars = <<"b", "2", "s", "=">> -> <<"o", "k">>
    [] chars = <<"e", "W", "8", "=">> -> <<"y", "o">>
    [] OTHER -> <<>>

\* part.mimeType === 'text/plain' && part.body?.data
PlainWithData(part) == part.mimeType = "text/plain" /\ Truthy(part.data)

\* for (const part of payload.parts) { if (...) return decode(part.body.data) }
RECURSIVE ScanParts(_)
ScanParts(parts) ==
  IF parts = <<>> THEN NoContent
  ELSE IF PlainWithData(Head(parts)) THEN Str(Base64Decode(Head(parts).data.s))
  ELSE ScanParts(Tail(parts))

\* An extractor that falls back to the top-level body when no part matches.
extractEmailBodyFallsBack(p) ==
  IF ~p.nul /\ p.hasParts /\ \E i \in 1..Len(p.parts) : PlainWithData(p.parts[i])
    THEN ScanParts(p.parts)
    ELSE IF ~p.nul /\ Truthy(p.data) THEN Str(Base64Decode(p.data.s)) ELSE NoContent

extractEmailBody(p) ==
  IF ~p.nul /\ p.hasParts THEN ScanParts(p.parts)
  ELSE IF ~p.nul /\ Truthy(p.data) THEN Str(Base64Decode(p.data.s))
  ELSE NoContent

(***************************************************************************)
(* Options.  A request is [via, ticket, skipEmail, skipAI, draft]: via is  *)
(* "http" for POST /process-ticket, "direct" for a caller of processTicket *)
(* and "none" for a run that never receives a request.                     *)
(***************************************************************************)
\* POST /process-ticket: const draftText = body.draft?.text || null
DraftText(req) == IF req.via = "http" THEN Or(req.draft, NULL) ELSE req.draft

\* hasDraft: !!draftText
HasDraft(req) == Truthy(DraftText(req))

(***************************************************************************)
(* storeTicketInDoc: the record text is built before the try block.        *)
(***************************************************************************)
StoreDocThrows(ticket) == ticket.nul \/ MessagesMapThrows(ticket)

\* A step that goes on to the document API without an identifier.
SkipsDocNever(id) == FALSE

\* const docId = process.env.GOOGLE_DOC_ID; if (!docId) { warn; return; }
SkipsDoc(id) == ~id

(***************************************************************************)
(* generateAIResponse                                                      *)
(***************************************************************************)
\* The prompt is built before the try block, from ticket.subject and the messages.
PromptThrows(ticket) == ticket.nul \/ MessagesMapThrows(ticket)

\* "Thank you for contacting our support team. ..." (abbreviated)
FallbackGenerated == Str(<<"T", "y">>)
\* 'Thanks for reaching out! ...' (abbreviated)
FallbackSkipped == Str(<<"T", "x">>)

\* What the completion API may do: throw, or answer with some content
\* (NULL: no choices or no content; Num: content that is not a string).
CompletionOutcomes ==
  { [throws |-> TRUE, content |-> NULL],
    [throws |-> FALSE, content |-> NULL],
    [throws |-> FALSE, content |-> Num],
    [throws |-> FALSE, content |-> Str(<<" ">>)],
    [throws |-> FALSE, content |-> Str(<<" ", "o", "k", " ">>)] }

\* How the completion request ends: it rejects ("failed"), it resolves without
\* a string content ("malformed"), or it resolves with a text ("ok").
CompletionStatus(outcome) ==
  IF outcome.throws THEN "failed"
  ELSE IF IsString(outcome.content) THEN "ok" ELSE "malformed"

\* Revision A with the fallback sentence of revision B in its failure branches.
GenerateAFallback(outcome) ==
  LET c == Or(outcome.content, EmptyStr) IN
  IF outcome.throws \/ ~IsString(c) THEN FallbackGenerated ELSE Str(Trim(c.s))

\* Revision A: (content || '').trim(), and '' from the catch block.
GenerateA(outcome) ==
  LET c == Or(outcome.content, EmptyStr) IN
  IF outcome.throws \/ ~IsString(c) THEN EmptyStr ELSE Str(Trim(c.s))

\* Revision B: content || fallback, and the fallback from the catch block.
GenerateB(outcome) ==
  IF outcome.throws THEN FallbackGenerated
  ELSE Or(Or(outcome.content, EmptyStr), FallbackGenerated)

generateAIResponse(v, outcome) ==
  IF v = "A" THEN GenerateA(outcome) ELSE GenerateB(outcome)

\* The completion request is made: if (!aiResponse) { if (!skipAI) ...
\* Generation that ignores the draft: if (!skipAI) ...
NeedsGenerationNoDraftCheck(req) == ~req.skipAI
NeedsGeneration(req) == ~Truthy(DraftText(req)) /\ ~req.skipAI

\* The fallback sentence in both revisions.
SkippedResponseFallback(v) == FallbackSkipped

\* The response when generation is skipped and there is no draft.
SkippedResponse(v) == IF v = "A" THEN EmptyStr ELSE FallbackSkipped

(***************************************************************************)
(* sendGmailResponse: TRUE when gmail.users.messages.send is requested.    *)
(***************************************************************************)
\* The guard without the trim: if (!response) return;
GmailSendsNoTrim(v, ticket, response) == Truthy(response)

\* A: if (!response || !response.trim()) return;  a response without trim
\*    raises inside the try block, and so does ticket.subject when there is
\*    no ticket.  B: no guard; ticket.customer raises inside the try block
\*    when there is no ticket.
GmailSends(v, ticket, response) ==
  IF v = "A" THEN IsString(response) /\ NonBlank(response) /\ ~ticket.nul
  ELSE ~ticket.nul

\* if (!skipEmail) await this.sendGmailResponse(...)
SendsEmail(req) == ~req.skipEmail

(***************************************************************************)
(* notifySlackChannel                                                      *)
(***************************************************************************)
\* B slices the first message body before the try block.
SlackPreThrows(v, ticket) == v = "B" /\ ~IsString(FirstMessageRaw(ticket))

\* A notifier that returns null without posting when there is no response.
SlackSkipsEmpty(v, response) == ~Truthy(response)

\* B builds the preview (response || '').slice(0, 200) inside the try block.
SlackBuildThrows(v, response) == v = "B" /\ Truthy(response) /\ ~IsString(response)

\* The thread reply condition raises inside the try block (A: response.trim).
ThreadCondThrows(v, response) == v = "A" /\ TrimThrows(response)

\* The thread condition without the trim in both revisions.
PostsThreadNoTrim(v, response) == Truthy(response)

\* if (!error && response && response.trim())   (B: if (!error && response))
PostsThread(v, response) ==
  IF v = "A" THEN IsString(response) /\ NonBlank(response) ELSE Truthy(response)

\* A reply keyed to the message that precedes the parent in the channel.
ThreadKeyLatest(own, latest) == latest

\* thread_ts: threadTs, where const threadTs = post.ts is local to the call:
\* own is the ts this call's parent post returned, latest the ts of the message
\* posted to the channel before it.
ThreadKey(own, latest) == own

SlackNull == [nul |-> TRUE, ts |-> 0]
SlackInfo(ts) == [nul |-> FALSE, ts |-> ts]

UnknownCustomer ==
  Str(<<"U", "n", "k", "n", "o", "w", "n", " ", "c", "u", "s", "t", "o", "m", "e", "r">>)

\* `${v}` in a template literal; an absent property reads undefined.
Interpolate(v) ==
  CASE v.t = "str" -> v.s
    [] v.t = "num" -> <<"5">>
    [] OTHER -> <<"u", "n", "d", "e", "f", "i", "n", "e", "d">>

\* ticket?.customer?.name and ticket?.customer?.email
NestedField(ticket, field) ==
  IF ticket.customer.k = "obj" THEN ticket.customer.o[field] ELSE NULL

\* What follows "*Customer:* " in the parent message.
\* A: customer.name, else customer.email, else 'Unknown customer'.
\* B: `${ticket?.customer?.name} (${ticket?.customer?.email})`
CustomerLine(v, ticket, cust) ==
  IF v = "A"
    THEN IF Truthy(cust.name) THEN Str(Interpolate(cust.name))
         ELSE IF Truthy(cust.email) THEN Str(Interpolate(cust.email))
         ELSE UnknownCustomer
    ELSE Str(Interpolate(NestedField(ticket, "name")) \o <<" ", "(">>
               \o Interpolate(NestedField(ticket, "email")) \o <<")">>)

ChatPreviewLen == 200
ExcerptLen == 500

\* B: const preview = (response || '').slice(0, 200) +
\*      ((response || '').length > 200 ? '...' : '');  shown if (response).
\* A posts no response preview.
ChatPreview(v, response) ==
  IF v = "B" /\ Truthy(response)
    THEN Str(Slice(response.s, ChatPreviewLen)
               \o (IF Len(response.s) > ChatPreviewLen THEN <<".", ".", ".">> ELSE <<>>))
    ELSE NULL

\* A: ((body || text || '') + '').slice(0, 500);  B: customerMessageRaw.slice(0, 500)
ChatExcerpt(v, ticket) == Str(Slice(ToStr(FirstMessageRaw(ticket)).s, ExcerptLen))

\* The customer line of the error shape: the catch block of processTicket
\* passes this.normalizeCustomer(ticket) again (A).
ErrorCustomerLine(v, ticket) == CustomerLine(v, ticket, normalizeCustomer(ticket))

(***************************************************************************)
(* updateKnowledgeBase                                                     *)
(***************************************************************************)
UpdateKBThrows(v, ticket) ==
  \/ v = "A" /\ normalizeCustomerThrows(ticket)
  \/ MessagesMapThrows(ticket)

(***************************************************************************)
(* The PipelineResult                                                      *)
(***************************************************************************)
PreviewLen == 180

\* used_ai without the draft: !skipAI
UsedAiIgnoringDraft(req) == ~req.skipAI
\* used_ai: !skipAI && !draftText
UsedAi(req) == ~req.skipAI /\ ~Truthy(DraftText(req))

\* A: emailed: !skipEmail && !!(aiResponse && aiResponse.trim());  B: !skipEmail
Emailed(v, req, response) ==
  IF v = "A" THEN ~req.skipEmail /\ NonBlank(response) ELSE ~req.skipEmail

\* (aiResponse || '').slice(0, 180) raises when aiResponse has no slice;
\* in A aiResponse.trim() raises first unless skipEmail short-circuits it.
ResultThrows(response) == Truthy(response) /\ ~IsString(response)

\* B: summary.customer is { name: ticket?.customer?.name || null, ... }
SummaryCustomer(v, ticket, customer) ==
  IF v = "A" THEN customer
  ELSE [name |-> IF ticket.customer.k = "obj" THEN Or(ticket.customer.o.name, NULL) ELSE NULL,
        email |-> IF ticket.customer.k = "obj" THEN Or(ticket.customer.o.email, NULL) ELSE NULL]

\* A result whose emailed flag also requires the chat notification to have
\* been delivered.
PipelineResultEmailedIfPosted(v, req, customer, response, slack) ==
  [ok |-> TRUE,
   ticketId |-> Or(req.ticket.id, NULL),
   used_ai |-> UsedAi(req),
   emailed |-> Emailed(v, req, response) /\ ~slack.nul,
   summary |->
     [source |-> Or(req.ticket.source, NULL),
      subject |-> Or(req.ticket.subject, NULL),
      customer |-> SummaryCustomer(v, req.ticket, customer),
      message_preview |-> Slice(ToStr(FirstMessageRaw(req.ticket)).s, PreviewLen),
      response_preview |-> Slice(Or(response, EmptyStr).s, PreviewLen),
      flags |-> [skip_email |-> req.skipEmail, skip_ai |-> req.skipAI,
                 has_draft |-> HasDraft(req)]],
   slack |-> slack]

PipelineResult(v, req, customer, response, slack) ==
  [ok |-> TRUE,
   ticketId |-> Or(req.ticket.id, NULL),
   used_ai |-> UsedAi(req),
   emailed |-> Emailed(v, req, response),
   summary |->
     [source |-> Or(req.ticket.source, NULL),
      subject |-> Or(req.ticket.subject, NULL),
      customer |-> SummaryCustomer(v, req.ticket, customer),
      message_preview |-> Slice(ToStr(FirstMessageRaw(req.ticket)).s, PreviewLen),
      response_preview |-> Slice(Or(response, EmptyStr).s, PreviewLen),
      flags |-> [skip_email |-> req.skipEmail, skip_ai |-> req.skipAI,
                 has_draft |-> HasDraft(req)]],
   slack |-> slack]

(***************************************************************************)
(* The inputs the model runs the pipeline on.                              *)
(***************************************************************************)
Hi == Str(<<"h", "i">>)

\* A text one character longer than the previews of the result.
LongText == Str([i \in 1..(PreviewLen + 1) |-> "x"])

BaseTicket ==
  [EmptyTicket EXCEPT !.id = Str(<<"T", "1">>), !.subject = Str(<<"H", "e", "l", "p">>),
                      !.source = Str(<<"m", "a", "n", "u", "a", "l">>),
                      !.customer = CustObj([NoObj EXCEPT !.name = Ana, !.email = AnaMail]),
                      !.messages = Messages(<<Msg(Hi, NULL)>>)]

CustomerSamples ==
  { NoCustomer,
    CustStr("{\"name\":\"Ana\",\"email\":\"a@x\"}"),
    CustStr("null"),
    CustStr("Ana <a@x>") }

MessageSamples ==
  { NoMessages,
    Messages(<<NullMsg>>),
    Messages(<<Msg(Num, NULL)>>),
    Messages(<<Msg(NULL, Hi), Msg(Hi, NULL)>>),
    Messages(<<Msg(LongText, NULL)>>) }

HttpTickets ==
  {BaseTicket, [EmptyTicket EXCEPT !.customer_name = Bob]}
    \cup {[BaseTicket EXCEPT !.customer = c] : c \in CustomerSamples}
    \cup {[BaseTicket EXCEPT !.messages = m] : m \in MessageSamples}

Tickets == HttpTickets \cup {NoTicket}

DraftSamples == {NULL, EmptyStr, Str(<<" ">>), Str(<<"h", "i", " ">>), Num, LongText}

NoRequest ==
  [via |-> "none", ticket |-> NoTicket, skipEmail |-> FALSE, skipAI |-> FALSE,
   draft |-> NULL]

Requests ==
  { [via |-> via, ticket |-> t, skipEmail |-> se, skipAI |-> sa, draft |-> d] :
      via \in {"direct", "http"}, t \in Tickets, se \in BOOLEAN, sa \in BOOLEAN,
      d \in DraftSamples }

\* POST /process-ticket passes req.body || {} as the ticket, never undefined.
ValidRequest(req) == req.via = "http" => ~req.ticket.nul

(***************************************************************************)
(* State                                                                   *)
(***************************************************************************)
VARIABLES
  variant,     \* the revision of the agent that runs
  docId,       \* process.env.GOOGLE_DOC_ID is set
  request,     \* request[r]: what run r was called with
  pc,          \* pc[r]: where run r stands
  customer,    \* customer[r]: const customer = this.normalizeCustomer(ticket)
  aiResponse,  \* aiResponse[r]
  threadTs,    \* threadTs[r]: ts of the parent post of the current notification
  slackInfo,   \* slackInfo[r]: what notifySlackChannel returned
  err,         \* err[r]: the error processTicket's catch block caught
  nerr,        \* nerr[r]: errors raised so far in run r (gives errors an identity)
  result,      \* result[r]: the PipelineResult the run resolved with
  rejection,   \* rejection[r]: the error the run rejected with
  calls,       \* calls[r]: the external API requests of run r, in order
  trace,       \* trace[r]: the pipeline steps run r entered, in order
  nextTs,      \* the chat service's clock: the ts of its next message
  http,        \* http[r]: status of the HTTP response (0: none yet)
  payload,     \* the message payload extractEmailBody is called with
  emailBody    \* what extractEmailBody returned (NULL: not called)

vars ==
  <<variant, docId, request, pc, customer, aiResponse, threadTs, slackInfo, err,
    nerr, result, rejection, calls, trace, nextTs, http, payload, emailBody>>

NoError == [site |-> "none", n |-> 0]
NoResult == [ok |-> FALSE]
NoCust == [name |-> EmptyStr, email |-> EmptyStr]

\* One external API request.  status: "pending", then "ok" or "failed"; line is
\* the customer line of a chat message, ts the timestamp chat.postMessage
\* resolved with (0: none).
Call(api, kind, text, ts) ==
  [api |-> api, kind |-> kind, text |-> text, thread_ts |-> ts, line |-> NULL,
   preview |-> NULL, excerpt |-> NULL, ts |-> 0, status |-> "pending"]

\* A chat.postMessage request of the parent message, in either shape.
SlackPost(kind, line) == [Call("slack", kind, NULL, 0) EXCEPT !.line = line]

\* The parent message of the success shape, with its customer-message excerpt
\* and (B) its response preview.
ParentPost(v, ticket, cust, response) ==
  [SlackPost("parent", CustomerLine(v, ticket, cust)) EXCEPT
     !.preview = ChatPreview(v, response),
     !.excerpt = ChatExcerpt(v, ticket)]

\* The state of the runs before their first step, given the requests.
InitRuns ==
  /\ variant \in {"A", "B"}
  /\ docId \in BOOLEAN
  /\ pc = [r \in Runs |-> IF request[r].via = "none" THEN "idle" ELSE "start"]
  /\ customer = [r \in Runs |-> NoCust]
  /\ aiResponse = [r \in Runs |-> NULL]
  /\ threadTs = [r \in Runs |-> 0]
  /\ slackInfo = [r \in Runs |-> SlackNull]
  /\ err = [r \in Runs |-> NoError]
  /\ nerr = [r \in Runs |-> 0]
  /\ result = [r \in Runs |-> NoResult]
  /\ rejection = [r \in Runs |-> NoError]
  /\ calls = [r \in Runs |-> <<>>]
  /\ trace = [r \in Runs |-> <<>>]
  /\ nextTs = 1
  /\ http = [r \in Runs |-> 0]
  /\ payload = NoPayload
  /\ emailBody = NULL

\* One request at a time: run 1 receives it, the other runs stay idle.
Init ==
  /\ \E q \in Requests :
       /\ ValidRequest(q)
       /\ request = [r \in Runs |-> IF r = 1 THEN q ELSE NoRequest]
  /\ InitRuns

(***************************************************************************)
(* Steps of processTicket.  Each action is one stretch of synchronous code *)
(* of run r, from one await to the next.                                   *)
(***************************************************************************)
\* The steps of processTicket with the chat notification before the e-mail.
StepAfterChatFirst(step) ==
  CASE step = "start" -> "storeDoc"
    [] step = "storeDoc" -> "kb"
    [] step = "kb" -> "resolve"
    [] step = "resolve" -> "notify"
    [] step = "notify" -> "email"
    [] step = "email" -> "updateKB"
    [] step = "updateKB" -> "return"

\* The steps of processTicket with nothing after the record step: neither the
\* return statement nor an exception ends the run.
StepAfterNoReturn(step) ==
  CASE step = "start" -> "storeDoc"
    [] step = "storeDoc" -> "kb"
    [] step = "kb" -> "resolve"
    [] step = "resolve" -> "email"
    [] step = "email" -> "notify"
    [] step = "notify" -> "updateKB"
    [] step = "updateKB" -> "hung"

\* The statement of processTicket's try block that follows `step`.
StepAfter(step) ==
  CASE step = "start" -> "storeDoc"
    [] step = "storeDoc" -> "kb"
    [] step = "kb" -> "resolve"
    [] step = "resolve" -> "email"
    [] step = "email" -> "notify"
    [] step = "notify" -> "updateKB"
    [] step = "updateKB" -> "return"

Ticket(r) == request[r].ticket

Enter(r, step) == trace' = [trace EXCEPT ![r] = Append(@, step)]

Request(r, call) == calls' = [calls EXCEPT ![r] = Append(@, call)]

\* The pending request of run r (its last one) ends with `status`.
Settle(r, status) ==
  calls' = [calls EXCEPT ![r][Len(calls[r])].status = status]

\* The pending chat.postMessage of run r resolves with the timestamp `ts`.
Posted(r, ts) ==
  calls' = [calls EXCEPT ![r][Len(calls[r])].status = "ok",
                         ![r][Len(calls[r])].ts = ts]

Goto(r, label) == pc' = [pc EXCEPT ![r] = label]

\* An exception of `site` escapes to the catch block of processTicket.
Throw(r, site) ==
  /\ nerr' = [nerr EXCEPT ![r] = @ + 1]
  /\ err' = [err EXCEPT ![r] = [site |-> site, n |-> nerr[r] + 1]]
  /\ Goto(r, "catch")

\* processTicket up to the first await: (A) const customer = normalizeCustomer(ticket)
Begin(r) ==
  /\ pc[r] = "start"
  /\ IF variant = "A"
       THEN /\ Enter(r, "normalize")
            /\ IF normalizeCustomerThrows(Ticket(r))
                 THEN Throw(r, "normalizeCustomer") /\ UNCHANGED customer
                 ELSE /\ customer' = [customer EXCEPT ![r] = normalizeCustomer(Ticket(r))]
                      /\ Goto(r, StepAfter("start"))
                      /\ UNCHANGED <<err, nerr>>
       ELSE Goto(r, StepAfter("start")) /\ UNCHANGED <<customer, err, nerr, trace>>
  /\ UNCHANGED <<payload, emailBody, variant, docId, request, aiResponse, threadTs, slackInfo, result,
                 rejection, calls, nextTs, http>>

\* await this.storeTicketInDoc(ticket, customer), up to docs.documents.batchUpdate
StoreTicketInDoc(r) ==
  /\ pc[r] = "storeDoc"
  /\ Enter(r, "doc")
  /\ IF SkipsDoc(docId)
       THEN Goto(r, StepAfter("storeDoc")) /\ UNCHANGED <<err, nerr, calls>>
       ELSE IF StoreDocThrows(Ticket(r))
         THEN Throw(r, "storeTicketInDoc") /\ UNCHANGED calls
         ELSE /\ Request(r, Call("docs", "append", NULL, 0))
              /\ Goto(r, "awaitDocs")
              /\ UNCHANGED <<err, nerr>>
  /\ UNCHANGED <<payload, emailBody, variant, docId, request, customer, aiResponse, threadTs, slackInfo,
                 result, rejection, nextTs, http>>

\* batchUpdate resolves or rejects; the rejection is caught and logged.
DocsReturn(r) ==
  /\ pc[r] = "awaitDocs"
  /\ \E status \in {"ok", "failed"} : Settle(r, status)
  /\ Goto(r, StepAfter("storeDoc"))
  /\ UNCHANGED <<payload, emailBody, variant, docId, request, customer, aiResponse, threadTs, slackInfo,
                 err, nerr, result, rejection, trace, nextTs, http>>

\* const context = await this.getKnowledgeBaseContext(ticket)
GetKnowledgeBaseContext(r) ==
  /\ pc[r] = "kb"
  /\ Enter(r, "kb")
  /\ Goto(r, StepAfter("kb"))
  /\ UNCHANGED <<payload, emailBody, variant, docId, request, customer, aiResponse, threadTs, slackInfo,
                 err, nerr, result, rejection, calls, nextTs, http>>

\* let aiResponse = draftText; if (!aiResponse) { if (!skipAI) generate else '' }
ResolveResponse(r) ==
  /\ pc[r] = "resolve"
  /\ Enter(r, "resolve")
  /\ IF NeedsGeneration(request[r])
       THEN IF PromptThrows(Ticket(r))
         THEN Throw(r, "generateAIResponse") /\ UNCHANGED <<aiResponse, calls>>
         ELSE /\ Request(r, Call("openai", "complete", NULL, 0))
              /\ Goto(r, "awaitOpenAI")
              /\ UNCHANGED <<aiResponse, err, nerr>>
       ELSE /\ aiResponse' =
                 [aiResponse EXCEPT ![r] =
                    IF Truthy(DraftText(request[r])) THEN DraftText(request[r])
                    ELSE SkippedResponse(variant)]
            /\ Goto(r, StepAfter("resolve"))
            /\ UNCHANGED <<err, nerr, calls>>
  /\ UNCHANGED <<payload, emailBody, variant, docId, request, customer, threadTs, slackInfo, result,
                 rejection, nextTs, http>>

\* openai.chat.completions.create resolves or rejects; generateAIResponse returns.
OpenAIReturn(r) ==
  /\ pc[r] = "awaitOpenAI"
  /\ \E o \in CompletionOutcomes :
       /\ Settle(r, CompletionStatus(o))
       /\ aiResponse' = [aiResponse EXCEPT ![r] = generateAIResponse(variant, o)]
  /\ Goto(r, StepAfter("resolve"))
  /\ UNCHANGED <<payload, emailBody, variant, docId, request, customer, threadTs, slackInfo, err, nerr,
                 result, rejection, trace, nextTs, http>>

\* if (!skipEmail) await this.sendGmailResponse(...), up to gmail.users.messages.send
SendGmailResponse(r) ==
  /\ pc[r] = "email"
  /\ IF SendsEmail(request[r])
       THEN /\ Enter(r, "email")
            /\ IF GmailSends(variant, Ticket(r), aiResponse[r])
                 THEN /\ Request(r, Call("gmail", "send", aiResponse[r], 0))
                      /\ Goto(r, "awaitGmail")
                 ELSE Goto(r, StepAfter("email")) /\ UNCHANGED calls
       ELSE Goto(r, StepAfter("email")) /\ UNCHANGED <<calls, trace>>
  /\ UNCHANGED <<payload, emailBody, variant, docId, request, customer, aiResponse, threadTs, slackInfo,
                 err, nerr, result, rejection, nextTs, http>>

\* messages.send resolves or rejects; the rejection is caught and logged.
GmailReturn(r) ==
  /\ pc[r] = "awaitGmail"
  /\ \E status \in {"ok", "failed"} : Settle(r, status)
  /\ Goto(r, StepAfter("email"))
  /\ UNCHANGED <<payload, emailBody, variant, docId, request, customer, aiResponse, threadTs, slackInfo,
                 err, nerr, result, rejection, trace, nextTs, http>>

\* const slackInfo = await this.notifySlackChannel(ticket, customer, aiResponse),
\* up to the parent chat.postMessage
NotifySlackChannel(r) ==
  /\ pc[r] = "notify"
  /\ Enter(r, "chat")
  /\ IF SlackPreThrows(variant, Ticket(r))
       THEN Throw(r, "notifySlackChannel") /\ UNCHANGED <<slackInfo, calls>>
       ELSE IF SlackBuildThrows(variant, aiResponse[r])
         THEN /\ slackInfo' = [slackInfo EXCEPT ![r] = SlackNull]
              /\ Goto(r, StepAfter("notify"))
              /\ UNCHANGED <<err, nerr, calls>>
         ELSE /\ Request(r, ParentPost(variant, Ticket(r), customer[r], aiResponse[r]))
              /\ Goto(r, "awaitSlackParent")
              /\ UNCHANGED <<err, nerr, slackInfo>>
  /\ UNCHANGED <<payload, emailBody, variant, docId, request, customer, aiResponse, threadTs, result,
                 rejection, nextTs, http>>

\* The parent post resolves or rejects; then the thread reply is requested, or
\* notifySlackChannel returns { channel, ts } or (from its catch block) null.
SlackParentReturn(r) ==
  /\ pc[r] = "awaitSlackParent"
  /\ \/ /\ Settle(r, "failed")
        /\ slackInfo' = [slackInfo EXCEPT ![r] = SlackNull]
        /\ Goto(r, StepAfter("notify"))
        /\ UNCHANGED <<threadTs, nextTs>>
     \/ /\ threadTs' = [threadTs EXCEPT ![r] = nextTs]
        /\ nextTs' = nextTs + 1
        /\ IF ThreadCondThrows(variant, aiResponse[r])
             THEN /\ Posted(r, nextTs)
                  /\ slackInfo' = [slackInfo EXCEPT ![r] = SlackNull]
                  /\ Goto(r, StepAfter("notify"))
             ELSE IF PostsThread(variant, aiResponse[r])
               THEN /\ calls' =
                         [calls EXCEPT
                            ![r] = Append([@ EXCEPT ![Len(@)].status = "ok",
                                                    ![Len(@)].ts = nextTs],
                                          Call("slack", "thread", aiResponse[r],
                                               ThreadKey(nextTs, nextTs - 1)))]
                    /\ Goto(r, "awaitSlackThread")
                    /\ UNCHANGED slackInfo
               ELSE /\ Posted(r, nextTs)
                    /\ slackInfo' = [slackInfo EXCEPT ![r] = SlackInfo(nextTs)]
                    /\ Goto(r, StepAfter("notify"))
  /\ UNCHANGED <<payload, emailBody, variant, docId, request, customer, aiResponse, err, nerr, result,
                 rejection, trace, http>>

\* The thread reply resolves or rejects.
SlackThreadReturn(r) ==
  /\ pc[r] = "awaitSlackThread"
  /\ \/ /\ Settle(r, "failed")
        /\ slackInfo' = [slackInfo EXCEPT ![r] = SlackNull]
        /\ UNCHANGED nextTs
     \/ /\ Posted(r, nextTs)
        /\ slackInfo' = [slackInfo EXCEPT ![r] = SlackInfo(threadTs[r])]
        /\ nextTs' = nextTs + 1
  /\ Goto(r, StepAfter("notify"))
  /\ UNCHANGED <<payload, emailBody, variant, docId, request, customer, aiResponse, threadTs, err, nerr,
                 result, rejection, trace, http>>

\* await this.updateKnowledgeBase(ticket, aiResponse)
UpdateKnowledgeBase(r) ==
  /\ pc[r] = "updateKB"
  /\ Enter(r, "record")
  /\ IF UpdateKBThrows(variant, Ticket(r))
       THEN Throw(r, "updateKnowledgeBase")
       ELSE Goto(r, StepAfter("updateKB")) /\ UNCHANGED <<err, nerr>>
  /\ UNCHANGED <<payload, emailBody, variant, docId, request, customer, aiResponse, threadTs, slackInfo,
                 result, rejection, calls, nextTs, http>>

\* return { ok: true, ... }
ReturnResult(r) ==
  /\ pc[r] = "return"
  /\ IF ResultThrows(aiResponse[r])
       THEN Throw(r, "result") /\ UNCHANGED result
       ELSE /\ result' =
                 [result EXCEPT ![r] =
                    PipelineResult(variant, request[r], customer[r], aiResponse[r],
                                   slackInfo[r])]
            /\ Goto(r, "done")
            /\ UNCHANGED <<err, nerr>>
  /\ UNCHANGED <<payload, emailBody, variant, docId, request, customer, aiResponse, threadTs, slackInfo,
                 rejection, calls, trace, nextTs, http>>

(***************************************************************************)
(* The catch block of processTicket                                        *)
(***************************************************************************)
\* try { await this.notifySlackChannel(ticket, this.normalizeCustomer(ticket),
\*       null, error) } catch {}
\* The error message is requested unless the argument (A) or the code of
\* notifySlackChannel before its try block (B) raises.
CatchNotifies(v, ticket) ==
  /\ ~(v = "A" /\ normalizeCustomerThrows(ticket))
  /\ ~SlackPreThrows(v, ticket)

CatchNotify(r) ==
  /\ pc[r] = "catch"
  /\ IF CatchNotifies(variant, Ticket(r))
       THEN /\ Request(r, SlackPost("error", ErrorCustomerLine(variant, Ticket(r))))
            /\ Goto(r, "awaitSlackError")
            /\ UNCHANGED nerr
       ELSE /\ nerr' = [nerr EXCEPT ![r] = @ + 1]
            /\ Goto(r, "rethrow")
            /\ UNCHANGED calls
  /\ UNCHANGED <<payload, emailBody, variant, docId, request, customer, aiResponse, threadTs, slackInfo,
                 err, result, rejection, trace, nextTs, http>>

\* The error post resolves or rejects; notifySlackChannel catches the rejection.
SlackErrorReturn(r) ==
  /\ pc[r] = "awaitSlackError"
  /\ \/ Settle(r, "failed") /\ UNCHANGED nextTs
     \/ Posted(r, nextTs) /\ nextTs' = nextTs + 1
  /\ Goto(r, "rethrow")
  /\ UNCHANGED <<payload, emailBody, variant, docId, request, customer, aiResponse, threadTs, slackInfo,
                 err, nerr, result, rejection, trace, http>>

\* throw error: the error caught, whatever was raised since.
Rethrown(caught, raised) == caught

Rethrow(r) ==
  /\ pc[r] = "rethrow"
  /\ rejection' = [rejection EXCEPT ![r] = Rethrown(err[r], nerr[r])]
  /\ Goto(r, "rejected")
  /\ UNCHANGED <<payload, emailBody, variant, docId, request, customer, aiResponse, threadTs, slackInfo,
                 err, nerr, result, calls, trace, nextTs, http>>

(***************************************************************************)
(* POST /process-ticket                                                    *)
(***************************************************************************)
\* A route that answers 200 whatever processTicket did.
HttpStatusAlwaysOk(state) == 200

\* res.status(200).json(response), or res.status(500).json({ ok: false, error })
HttpStatus(state) == IF state = "done" THEN 200 ELSE 500

Respond(r) ==
  /\ request[r].via = "http"
  /\ pc[r] \in {"done", "rejected"}
  /\ http[r] = 0
  /\ http' = [http EXCEPT ![r] = HttpStatus(pc[r])]
  /\ UNCHANGED <<payload, emailBody, variant, docId, request, pc, customer, aiResponse, threadTs,
                 slackInfo, err, nerr, result, rejection, calls, trace, nextTs>>

Next ==
  \E r \in Runs :
    \/ Begin(r)
    \/ StoreTicketInDoc(r)
    \/ DocsReturn(r)
    \/ GetKnowledgeBaseContext(r)
    \/ ResolveResponse(r)
    \/ OpenAIReturn(r)
    \/ SendGmailResponse(r)
    \/ GmailReturn(r)
    \/ NotifySlackChannel(r)
    \/ SlackParentReturn(r)
    \/ SlackThreadReturn(r)
    \/ UpdateKnowledgeBase(r)
    \/ ReturnResult(r)
    \/ CatchNotify(r)
    \/ SlackErrorReturn(r)
    \/ Rethrow(r)
    \/ Respond(r)

Spec == Init /\ [][Next]_vars

\* The revision with normalizeCustomer alone.
InitA == Init /\ variant = "A"

SpecA == InitA /\ [][Next]_vars

(***************************************************************************)
(* Two requests in flight.  The route starts one processTicket per request *)
(* and the runs interleave at their awaits; both carry the same ticket and *)
(* options, drawn from a few requests that between them take every path.   *)
(***************************************************************************)
PairRequests ==
  { [via |-> "http", ticket |-> BaseTicket, skipEmail |-> FALSE, skipAI |-> FALSE,
     draft |-> Str(<<"h", "i", " ">>)],
    [via |-> "http", ticket |-> BaseTicket, skipEmail |-> TRUE, skipAI |-> FALSE,
     draft |-> NULL],
    [via |-> "direct", ticket |-> [BaseTicket EXCEPT !.messages = Messages(<<NullMsg>>)],
     skipEmail |-> TRUE, skipAI |-> TRUE, draft |-> NULL],
    [via |-> "direct", ticket |-> BaseTicket, skipEmail |-> TRUE, skipAI |-> TRUE,
     draft |-> Str(<<" ">>)] }

\* Texts one character longer than the chat preview and the chat excerpt.
LongResponse == Str([i \in 1..(ChatPreviewLen + 1) |-> "y"])
LongBody == Str([i \in 1..(ExcerptLen + 1) |-> "z"])

\* The requests above and two with the long texts, one run at a time.
LongRequests ==
  PairRequests \cup
    { [via |-> "http", ticket |-> [BaseTicket EXCEPT !.messages = Messages(<<Msg(LongBody, NULL)>>)],
       skipEmail |-> se, skipAI |-> TRUE, draft |-> LongResponse] : se \in BOOLEAN }

InitLong ==
  /\ \E q \in LongRequests :
       request = [r \in Runs |-> IF r = 1 THEN q ELSE NoRequest]
  /\ InitRuns

SpecLong == InitLong /\ [][Next]_vars

InitPair ==
  /\ \E q \in PairRequests :
       request = [r \in Runs |-> IF r <= 2 THEN q ELSE NoRequest]
  /\ InitRuns

SpecPair == InitPair /\ [][Next]_vars

(***************************************************************************)
(* extractEmailBody called on its own, on the payload of a fetched message *)
(* (or on no payload at all).                                              *)
(***************************************************************************)
DataSamples ==
  {NULL, EmptyStr, Str(<<"a", "G", "k", "=">>), Str(<<"b", "2", "s", "=">>)}

PartSamples ==
  {[mimeType |-> m, data |-> d] : m \in {"text/plain", "text/html"}, d \in DataSamples}

PartLists == UNION {[1..n -> PartSamples] : n \in 0..MaxParts}

TopData == {NULL, EmptyStr, Str(<<"e", "W", "8", "=">>)}

EmailPayloads ==
  {NoPayload}
    \cup {[nul |-> FALSE, hasParts |-> FALSE, parts |-> <<>>, data |-> d] : d \in TopData}
    \cup {[nul |-> FALSE, hasParts |-> TRUE, parts |-> ps, data |-> d] :
            ps \in PartLists, d \in TopData}

InitE ==
  /\ payload \in EmailPayloads
  /\ emailBody = NULL
  /\ variant = "A"
  /\ docId = FALSE
  /\ request = [r \in Runs |-> NoRequest]
  /\ pc = [r \in Runs |-> "idle"]
  /\ customer = [r \in Runs |-> NoCust]
  /\ aiResponse = [r \in Runs |-> NULL]
  /\ threadTs = [r \in Runs |-> 0]
  /\ slackInfo = [r \in Runs |-> SlackNull]
  /\ err = [r \in Runs |-> NoError]
  /\ nerr = [r \in Runs |-> 0]
  /\ result = [r \in Runs |-> NoResult]
  /\ rejection = [r \in Runs |-> NoError]
  /\ calls = [r \in Runs |-> <<>>]
  /\ trace = [r \in Runs |-> <<>>]
  /\ nextTs = 1
  /\ http = [r \in Runs |-> 0]

\* this.extractEmailBody(payload)
ExtractEmailBody ==
  /\ emailBody = NULL
  /\ emailBody' = extractEmailBody(payload)
  /\ UNCHANGED <<payload, variant, docId, request, pc, customer, aiResponse, threadTs,
                 slackInfo, err, nerr, result, rejection, calls, trace, nextTs, http>>

NextE == ExtractEmailBody

SpecE == InitE /\ [][NextE]_vars

(***************************************************************************)
(* Helpers of the properties                                               *)
(***************************************************************************)
\* The positions in calls[r] of the requests of one kind.
CallsOf(r, kind) == {i \in 1..Len(calls[r]) : calls[r][i].kind = kind}

\* The positions in trace[r] of one step.
StepsOf(r, step) == {i \in 1..Len(trace[r]) : trace[r][i] = step}

\* Run r is in, or has left through, the catch block of processTicket.
Aborted(r) == pc[r] \in {"catch", "awaitSlackError", "rethrow", "rejected"}

(***************************************************************************)
(* normalizeCustomer called on its own.  Run 1 passes a ticket; when the    *)
(* customer field of that ticket is a string that JSON.parse accepts, run 2 *)
(* passes the same ticket with the field replaced by the parsed value.      *)
(***************************************************************************)
AliasTag == <<"1", "2", "3", "4", "5", "6">>
NameVal(i) == Str(<<"n", AliasTag[i]>>)
MailVal(i) == Str(<<"m", AliasTag[i]>>)

\* What an alias may hold: nothing, '', a text of its own, a non-string value.
AliasKinds == {"absent", "empty", "text", "other"}

AliasValue(kind, text) ==
  CASE kind = "absent" -> NULL
    [] kind = "empty" -> EmptyStr
    [] kind = "text" -> text
    [] OTHER -> Num

NoAliases == [i \in 1..6 |-> "absent"]

\* A ticket whose name aliases follow fn and e-mail aliases fe, in the order
\* customer.name, customer.Name, customer_name, CustomerName, Name, name.
AliasTicket(fn, fe) ==
  [EmptyTicket EXCEPT
     !.customer = CustObj([name |-> AliasValue(fn[1], NameVal(1)),
                           Name |-> AliasValue(fn[2], NameVal(2)),
                           email |-> AliasValue(fe[1], MailVal(1)),
                           Email |-> AliasValue(fe[2], MailVal(2))]),
     !.customer_name = AliasValue(fn[3], NameVal(3)),
     !.CustomerName = AliasValue(fn[4], NameVal(4)),
     !.Name = AliasValue(fn[5], NameVal(5)),
     !.name = AliasValue(fn[6], NameVal(6)),
     !.customer_email = AliasValue(fe[3], MailVal(3)),
     !.CustomerEmail = AliasValue(fe[4], MailVal(4)),
     !.Email = AliasValue(fe[5], MailVal(5)),
     !.email = AliasValue(fe[6], MailVal(6))]

\* The shapes of the customer field: absent, '', JSON texts, other strings, a
\* number.
CustomerForms ==
  { NoCustomer, CustNum, CustStr(""), CustStr("null"), CustStr("5"),
    CustStr("\"Ana\""), CustStr("{}"),
    CustStr("{\"name\":\"Ana\",\"email\":\"a@x\"}"),
    CustStr("{\"Name\":\"Bob\",\"Email\":\"b@x\"}"),
    CustStr("{\"email\":\"a@x\"}"),
    CustStr("Ana <a@x>"), CustStr("{name: Ana}") }

NormTickets ==
  {NoTicket}
    \cup {AliasTicket(f, NoAliases) : f \in [1..6 -> AliasKinds]}
    \cup {AliasTicket(NoAliases, f) : f \in [1..6 -> AliasKinds]}
    \cup {AliasTicket(f, f) : f \in [1..6 -> AliasKinds]}
    \cup { [AliasTicket([i \in 1..6 |-> IF i < 3 THEN "absent" ELSE g[i]],
                        [i \in 1..6 |-> IF i < 3 THEN "absent" ELSE g[i]])
              EXCEPT !.customer = c, !.Customer = cc] :
              g \in [3..6 -> AliasKinds], c \in CustomerForms,
              cc \in {NoCustomer, CustObj([NoObj EXCEPT !.name = Bob, !.Email = BobMail])} }

\* The customer field is a string that JSON.parse accepts.
IsJSONCustomer(ticket) ==
  ticket.customer.k = "str" /\ JSONParse(ticket.customer.text).ok

\* The same ticket with the customer field replaced by the parsed value.
ParsedTwin(ticket) ==
  [ticket EXCEPT !.customer = JSONParse(ticket.customer.text).v]

NormRequest(ticket) == [NoRequest EXCEPT !.via = "direct", !.ticket = ticket]

InitN ==
  /\ \E t \in NormTickets :
       request = [r \in Runs |->
                    IF r = 1 THEN NormRequest(t)
                    ELSE IF r = 2 /\ IsJSONCustomer(t) THEN NormRequest(ParsedTwin(t))
                    ELSE NoRequest]
  /\ variant = "A"
  /\ docId = FALSE
  /\ pc = [r \in Runs |-> IF request[r].via = "none" THEN "idle" ELSE "normalize"]
  /\ customer = [r \in Runs |-> NoCust]
  /\ aiResponse = [r \in Runs |-> NULL]
  /\ threadTs = [r \in Runs |-> 0]
  /\ slackInfo = [r \in Runs |-> SlackNull]
  /\ err = [r \in Runs |-> NoError]
  /\ nerr = [r \in Runs |-> 0]
  /\ result = [r \in Runs |-> NoResult]
  /\ rejection = [r \in Runs |-> NoError]
  /\ calls = [r \in Runs |-> <<>>]
  /\ trace = [r \in Runs |-> <<>>]
  /\ nextTs = 1
  /\ http = [r \in Runs |-> 0]
  /\ payload = NoPayload
  /\ emailBody = NULL

\* this.normalizeCustomer(ticket): returns { name, email } or raises.
CallNormalizeCustomer(r) ==
  /\ pc[r] = "normalize"
  /\ IF normalizeCustomerThrows(Ticket(r))
       THEN /\ nerr' = [nerr EXCEPT ![r] = @ + 1]
            /\ err' = [err EXCEPT ![r] = [site |-> "normalizeCustomer", n |-> nerr[r] + 1]]
            /\ Goto(r, "raised")
            /\ UNCHANGED customer
       ELSE /\ customer' = [customer EXCEPT ![r] = normalizeCustomer(Ticket(r))]
            /\ Goto(r, "normalized")
            /\ UNCHANGED <<err, nerr>>
  /\ UNCHANGED <<payload, emailBody, variant, docId, request, aiResponse, threadTs, slackInfo, result,
                 rejection, calls, trace, nextTs, http>>

NextN == \E r \in Runs : CallNormalizeCustomer(r)

SpecN == InitN /\ [][NextN]_vars

(***************************************************************************)
(* Properties                                                              *)
(***************************************************************************)
\* The requests of run r that ended with a failure.
Failed(r, kinds) ==
  {i \in 1..Len(calls[r]) : calls[r][i].kind \in kinds /\ calls[r][i].status = "failed"}

\* The document append, the e-mail send and the chat posts of a run.
Absorbed == {"append", "send", "parent", "thread"}

\* A result without its slack field.
SlackErased(res) == [res EXCEPT !.slack = SlackNull]

\* C1: whenever an exception escapes a step of processTicket, the run requests
\* exactly one error-shaped chat notification and then rejects with the error
\* that escaped, whatever becomes of the notification.
C1_OneErrorNotificationThenRethrow ==
  \A r \in Runs :
    pc[r] = "rejected" =>
      /\ Cardinality(CallsOf(r, "error")) = 1
      /\ rejection[r] = err[r]

\* C2: no exception raised inside storeTicketInDoc, sendGmailResponse or
\* notifySlackChannel reaches the catch block of processTicket.
C2_BestEffortStepsNeverAbort ==
  \A r \in Runs :
    err[r].site \notin {"storeTicketInDoc", "sendGmailResponse", "notifySlackChannel"}

\* The order of the steps in processTicket's try block.
StepOrder == <<"normalize", "doc", "kb", "resolve", "email", "chat", "record">>

Rank(step) == CHOOSE i \in 1..Len(StepOrder) : StepOrder[i] = step

\* The step that makes a request of this kind.
CallStep(kind) ==
  CASE kind = "append" -> "doc"
    [] kind = "complete" -> "resolve"
    [] kind = "send" -> "email"
    [] kind \in {"parent", "thread"} -> "chat"
    [] OTHER -> "catch"

Expected(req, step) == step = "email" => ~req.skipEmail

\* C3: the steps of a run happen in the fixed order normalize, document append,
\* knowledge-base fetch, response resolution, e-mail, chat, interaction record
\* (the e-mail step present unless skipEmail); a request to an external API is
\* made inside its own step and only when the run's earlier requests have all
\* returned or failed; the document append, the completion request and the
\* e-mail send are each requested at most once.
C3_FixedOrderNoRetry ==
  \A r \in Runs :
    /\ \A i, j \in 1..Len(trace[r]) : i < j => Rank(trace[r][i]) < Rank(trace[r][j])
    /\ \A i \in 1..Len(calls[r]) :
         /\ i < Len(calls[r]) => calls[r][i].status # "pending"
         /\ calls[r][i].kind # "error" => StepsOf(r, CallStep(calls[r][i].kind)) # {}
         /\ calls[r][i].status = "pending" /\ calls[r][i].kind # "error"
              => trace[r][Len(trace[r])] = CallStep(calls[r][i].kind)
    /\ \A i, j \in 1..Len(calls[r]) :
         i < j /\ calls[r][j].kind # "error"
           => Rank(CallStep(calls[r][i].kind)) <= Rank(CallStep(calls[r][j].kind))
    /\ \A kind \in {"append", "complete", "send"} : Cardinality(CallsOf(r, kind)) <= 1
    /\ pc[r] = "done" =>
         trace[r] = SelectSeq(StepOrder, LAMBDA step : Expected(request[r], step))

\* A run that made all three requests, the first two of which failed, and
\* completed.
C3_Witness ==
  \E r \in Runs :
    /\ pc[r] = "done"
    /\ \E i \in CallsOf(r, "append") : calls[r][i].status = "failed"
    /\ \E i \in CallsOf(r, "complete") : calls[r][i].status = "ok"
    /\ \E i \in CallsOf(r, "send") : calls[r][i].status = "failed"
    /\ CallsOf(r, "thread") # {}

\* C4: in every PipelineResult, used_ai is true if and only if skipAI is false
\* and no draft text was supplied (an empty draft text is no draft).
C4_UsedAiIffNoSkipNoDraft ==
  \A r \in Runs :
    pc[r] = "done" =>
      (result[r].used_ai <=> (~request[r].skipAI /\ ~Truthy(request[r].draft)))

\* A result with used_ai true although the completion request failed.
C4_Witness ==
  \E r \in Runs :
    /\ pc[r] = "done"
    /\ result[r].used_ai
    /\ \E i \in CallsOf(r, "complete") : calls[r][i].status = "failed"

\* C5: in every PipelineResult, emailed is true only if skipEmail is false and
\* the resolved response is neither empty nor whitespace-only.
C5_EmailedOnlyIfNonBlankResponse ==
  \A r \in Runs :
    pc[r] = "done" /\ result[r].emailed =>
      /\ ~request[r].skipEmail
      /\ IsString(aiResponse[r])
      /\ Trim(aiResponse[r].s) # <<>>

\* C6: sendGmailResponse requests gmail.users.messages.send only for a response
\* that is a non-empty, not whitespace-only text, and processTicket never
\* requests it when skipEmail is set.
C6_NoSendWithoutResponse ==
  \A r \in Runs :
    \A i \in CallsOf(r, "send") :
      /\ ~request[r].skipEmail
      /\ IsString(calls[r][i].text)
      /\ Trim(calls[r][i].text.s) # <<>>

\* sendGmailResponse was called with a whitespace-only response and returned
\* without a send request.
C6_Witness ==
  \E r \in Runs :
    /\ ~request[r].skipEmail
    /\ StepsOf(r, "email") # {}
    /\ pc[r] = "notify"
    /\ aiResponse[r] = Str(<<" ">>)
    /\ CallsOf(r, "send") = {}

\* C7: when the completion request fails or returns a malformed response,
\* generateAIResponse returns '' without raising; no e-mail is sent, the run is
\* not aborted, and when it completes the chat notification and the interaction
\* record have run and the result is ok with emailed false.
C7_GenerationFailureDegrades ==
  \A r \in Runs :
    \A i \in CallsOf(r, "complete") :
      calls[r][i].status \in {"failed", "malformed"} =>
        /\ aiResponse[r] = EmptyStr
        /\ CallsOf(r, "send") = {}
        /\ ~Aborted(r)
        /\ pc[r] = "done" =>
             /\ result[r].ok
             /\ ~result[r].emailed
             /\ CallsOf(r, "parent") # {}
             /\ StepsOf(r, "chat") # {}
             /\ StepsOf(r, "record") # {}

\* A completed run, e-mail not skipped, whose completion request failed.
C7_Witness ==
  \E r \in Runs :
    /\ pc[r] = "done"
    /\ ~request[r].skipEmail
    /\ StepsOf(r, "email") # {}
    /\ \E i \in CallsOf(r, "complete") : calls[r][i].status = "failed"

\* C8: the completion API is requested in a run if and only if no draft text
\* was supplied and skipAI is false; with a draft the resolved response is the
\* draft itself, so the e-mail body and the thread reply carry it unchanged and
\* used_ai is false.
C8_DraftPrecedence ==
  \A r \in Runs :
    /\ CallsOf(r, "complete") # {} => ~Truthy(request[r].draft) /\ ~request[r].skipAI
    /\ pc[r] \in {"email", "done"} /\ ~Truthy(request[r].draft) /\ ~request[r].skipAI
         => CallsOf(r, "complete") # {}
    /\ Truthy(request[r].draft) =>
         /\ StepsOf(r, "resolve") # {} => aiResponse[r] = request[r].draft
         /\ \A i \in CallsOf(r, "send") \cup CallsOf(r, "thread") :
              calls[r][i].text = request[r].draft
         /\ pc[r] = "done" => ~result[r].used_ai

\* A completed run with a draft, skipAI false, whose e-mail and thread reply
\* were both requested.
C8_Witness ==
  \E r \in Runs :
    /\ pc[r] = "done"
    /\ request[r].draft = Str(<<"h", "i", " ">>)
    /\ ~request[r].skipAI
    /\ CallsOf(r, "send") # {}
    /\ CallsOf(r, "thread") # {}

\* The case of C9: skipAI set, no draft, skipEmail not set.
SkipAiOnly(r) ==
  request[r].skipAI /\ ~Truthy(request[r].draft) /\ ~request[r].skipEmail

\* C9: with skipAI set, no draft and skipEmail not set, the completion API is
\* not requested, used_ai is false, no e-mail is sent and emailed is false.
C9_SkipAiSendsNothing ==
  \A r \in Runs :
    SkipAiOnly(r) /\ request[r].via # "none" =>
      /\ CallsOf(r, "complete") = {}
      /\ CallsOf(r, "send") = {}
      /\ pc[r] = "done" => ~result[r].used_ai /\ ~result[r].emailed

\* C9 as amended: with skipAI set, no draft and skipEmail not set, the
\* completion API is not requested and used_ai is false; the revision that
\* resolves the response to '' sends no e-mail and reports emailed false, the
\* fallback-sentence revision e-mails the fixed sentence (for any ticket that
\* is not undefined) and reports emailed true.
C9_SkipAiAmended ==
  \A r \in Runs :
    SkipAiOnly(r) /\ request[r].via # "none" =>
      /\ CallsOf(r, "complete") = {}
      /\ pc[r] = "done" => ~result[r].used_ai
      /\ variant = "A" =>
           /\ CallsOf(r, "send") = {}
           /\ pc[r] = "done" => ~result[r].emailed
      /\ variant = "B" =>
           /\ \A i \in CallsOf(r, "send") : calls[r][i].text = FallbackSkipped
           /\ pc[r] = "done" =>
                /\ result[r].emailed
                /\ ~Ticket(r).nul => CallsOf(r, "send") # {}

\* A completed run of the case in each revision: without e-mail in the one,
\* with the e-mailed sentence in the other.
C9_Witness ==
  \E r \in Runs :
    /\ SkipAiOnly(r)
    /\ pc[r] = "done"
    /\ \/ variant = "A" /\ StepsOf(r, "email") # {} /\ ~result[r].emailed
       \/ variant = "B" /\ CallsOf(r, "send") # {}

\* C10: whatever skipEmail, skipAI and draftText are, a run that is not
\* aborted requests the parent chat post exactly once, after the e-mail step.
C10_ChatAlwaysAttempted ==
  \A r \in Runs :
    pc[r] = "done" =>
      /\ Cardinality(CallsOf(r, "parent")) = 1
      /\ StepsOf(r, "chat") # {}
      /\ \A i \in CallsOf(r, "send"), j \in CallsOf(r, "parent") : i < j
      /\ \A i \in StepsOf(r, "email"), j \in StepsOf(r, "chat") : i < j

\* A completed run with both skip flags set and no draft: the parent post was
\* requested.
C10_Witness ==
  \E r \in Runs :
    /\ pc[r] = "done"
    /\ request[r].skipEmail
    /\ request[r].skipAI
    /\ ~Truthy(request[r].draft)
    /\ CallsOf(r, "parent") # {}

\* C11: of two runs with the same ticket and options that resolved the same
\* response, if one returns a result then so does the other, whichever of their
\* document append, e-mail send and chat posts failed, and the two results have
\* ok true and the same ticketId, used_ai, emailed and summary; a run with a
\* failed chat post has slack null.
C11_AbsorbedFailuresKeepResult ==
  \A r1, r2 \in Runs :
    /\ pc[r1] = "done" /\ pc[r2] \in {"done", "rejected"}
    /\ request[r1] = request[r2]
    /\ aiResponse[r1] = aiResponse[r2]
    => /\ pc[r2] = "done"
       /\ result[r1].ok
       /\ SlackErased(result[r1]) = SlackErased(result[r2])
       /\ Failed(r1, {"parent", "thread"}) # {} => result[r1].slack.nul

\* Two completed runs of one request: in the first the append, the send and
\* the parent post failed, in the second every request succeeded.
C11_Witness ==
  \E r1, r2 \in Runs :
    /\ pc[r1] = "done" /\ pc[r2] = "done"
    /\ Failed(r1, {"append"}) # {} /\ Failed(r1, {"send"}) # {}
    /\ Failed(r1, {"parent"}) # {}
    /\ CallsOf(r2, "append") # {} /\ CallsOf(r2, "send") # {}
    /\ CallsOf(r2, "thread") # {} /\ Failed(r2, Absorbed) = {}
    /\ result[r1].emailed /\ result[r1].slack.nul /\ ~result[r2].slack.nul

\* C12: updateKnowledgeBase returns without raising for every ticket that
\* reaches it, so no run is rejected after its e-mail and chat notification.
C12_RecordAlwaysSucceeds ==
  \A r \in Runs : err[r].site # "updateKnowledgeBase"

\* The parent posts of run r that succeeded.
ParentsPosted(r) == {j \in CallsOf(r, "parent") : calls[r][j].status = "ok"}

\* What C13 says of a thread reply apart from when it is posted: it follows a
\* successful parent post of the same run, never an error notification, carries
\* the whole response, and is keyed to the timestamp that parent post returned,
\* which is no other run's.
ThreadReplyShape(r) ==
  \A i \in CallsOf(r, "thread") :
    /\ \E j \in ParentsPosted(r) : j < i /\ calls[r][i].thread_ts = calls[r][j].ts
    /\ \A j \in CallsOf(r, "error") : i < j
    /\ calls[r][i].text = aiResponse[r]
    /\ \A r2 \in Runs \ {r} : \A k \in CallsOf(r2, "parent") :
         calls[r2][k].ts # calls[r][i].thread_ts

Notified(r) ==
  StepsOf(r, "chat") # {} /\ pc[r] \notin {"awaitSlackParent", "awaitSlackThread"}

\* C14: notifySlackChannel never raises; it returns null if a chat API call of
\* the notification (parent post or thread reply) failed and otherwise
\* {channel, ts} with ts the timestamp of the parent message; the result of
\* processTicket carries that value in its slack field.
C14_NotifyReturnsNullOrParentTs ==
  \A r \in Runs :
    /\ err[r].site # "notifySlackChannel"
    /\ Notified(r) =>
         /\ slackInfo[r].nul <=> Failed(r, {"parent", "thread"}) # {}
         /\ ~slackInfo[r].nul =>
              \E j \in ParentsPosted(r) : slackInfo[r].ts = calls[r][j].ts
    /\ pc[r] = "done" => result[r].slack = slackInfo[r]

\* normalizeCustomer has returned or raised in run r.
Normalized(r) == pc[r] \in {"normalized", "raised"}

\* C15: for a ticket whose customer field is a JSON-encoded string,
\* normalizeCustomer returns the same {name, email} as for the same ticket with
\* the customer field replaced by the value the string parses to.
C15_JSONStringAsParsedValue ==
  IsJSONCustomer(Ticket(1)) /\ request[2].ticket = ParsedTwin(Ticket(1))
    /\ Normalized(1) /\ Normalized(2)
    => pc[1] = "normalized" /\ pc[2] = "normalized" /\ customer[1] = customer[2]

\* The customer field is a string that JSON.parse rejects.
IsUnparsableCustomer(ticket) ==
  ticket.customer.k = "str" /\ ~JSONParse(ticket.customer.text).ok

\* C16: for a ticket whose customer field is a string that is not valid JSON,
\* normalizeCustomer returns {name: "", email: ""} and does not raise.
C16_UnparsableYieldsEmpty ==
  \A r \in Runs :
    IsUnparsableCustomer(Ticket(r)) /\ Normalized(r)
      => pc[r] = "normalized" /\ customer[r] = NoCust

\* The first alias of the sequence that is present and non-empty, '' if none.
FirstPresent(aliases) ==
  IF \E i \in 1..Len(aliases) : Truthy(aliases[i])
    THEN aliases[CHOOSE i \in 1..Len(aliases) :
                   Truthy(aliases[i]) /\ \A j \in 1..(i - 1) : ~Truthy(aliases[j])]
    ELSE EmptyStr

TopLevelNames(t) == <<t.customer_name, t.CustomerName, t.Name, t.name>>
TopLevelEmails(t) == <<t.customer_email, t.CustomerEmail, t.Email, t.email>>

\* C16 as amended: for a ticket whose customer field is a non-empty string
\* that is not valid JSON, normalizeCustomer does not raise and returns what
\* the top-level aliases give: the first present and non-empty of
\* customer_name, CustomerName, Name, name (and of the e-mail aliases), and ""
\* for a field that has none.
C16_UnparsableAmended ==
  \A r \in Runs :
    IsUnparsableCustomer(Ticket(r)) /\ Ticket(r).customer.text # "" /\ Normalized(r)
      => /\ pc[r] = "normalized"
         /\ customer[r].name = FirstPresent(TopLevelNames(Ticket(r)))
         /\ customer[r].email = FirstPresent(TopLevelEmails(Ticket(r)))

\* An unparsable customer string next to a Customer object and top-level
\* aliases: the result is the CustomerName alias, not the Customer object.
C16_Witness ==
  /\ pc[1] = "normalized"
  /\ Ticket(1).customer = CustStr("Ana <a@x>")
  /\ Ticket(1).Customer.k = "obj"
  /\ ~Truthy(Ticket(1).customer_name)
  /\ customer[1] = [name |-> NameVal(4), email |-> MailVal(4)]

\* C17: normalizeCustomer returns without raising for every input, and the
\* name and the email of the result are strings.
C17_TotalAndStringValued ==
  \A r \in Runs :
    Normalized(r) =>
      /\ pc[r] = "normalized"
      /\ IsString(customer[r].name)
      /\ IsString(customer[r].email)

\* The name and e-mail aliases of a ticket whose customer is an object, in the
\* order of C18.
NameAliases(t) == <<t.customer.o.name, t.customer.o.Name>> \o TopLevelNames(t)
EmailAliases(t) == <<t.customer.o.email, t.customer.o.Email>> \o TopLevelEmails(t)

\* C18: normalizeCustomer returns, for the name and for the e-mail, the first
\* alias that is present and non-empty in the order customer.name,
\* customer.Name, customer_name, CustomerName, Name, name (and the e-mail
\* equivalents): a lower-ranked alias only when all higher-ranked ones are
\* absent or empty.
C18_AliasPrecedence ==
  \A r \in Runs :
    pc[r] = "normalized" /\ Ticket(r).customer.k = "obj" =>
      /\ \A i \in 1..6 :
           /\ Truthy(NameAliases(Ticket(r))[i])
           /\ \A j \in 1..(i - 1) : ~Truthy(NameAliases(Ticket(r))[j])
           => customer[r].name = NameAliases(Ticket(r))[i]
      /\ \A i \in 1..6 :
           /\ Truthy(EmailAliases(Ticket(r))[i])
           /\ \A j \in 1..(i - 1) : ~Truthy(EmailAliases(Ticket(r))[j])
           => customer[r].email = EmailAliases(Ticket(r))[i]

\* customer.name absent, customer.Name empty, customer_name, Name and name
\* present: customer_name is returned.
C18_Witness ==
  /\ pc[1] = "normalized"
  /\ Ticket(1).customer.k = "obj"
  /\ Ticket(1).customer.o.name = NULL
  /\ Ticket(1).customer.o.Name = EmptyStr
  /\ Ticket(1).customer_name = NameVal(3)
  /\ Ticket(1).Name = NameVal(5)
  /\ Ticket(1).name = NameVal(6)
  /\ customer[1].name = NameVal(3)

\* The characters a are the first characters of b.
IsPrefix(a, b) == Len(a) <= Len(b) /\ SubSeq(b, 1, Len(a)) = a

\* The chat messages of run r that carry a customer line: the success shape
\* and the error shape.
ParentMessages(r) == CallsOf(r, "parent") \cup CallsOf(r, "error")

\* C19: in the error shape and in the success shape of the chat message the
\* customer line reads "Unknown customer" if and only if the name and the
\* e-mail of the normalized customer are both empty; otherwise it shows the
\* name, or the e-mail when the name is empty.
C19_UnknownCustomerLine ==
  \A r \in Runs :
    \A i \in ParentMessages(r) :
      ~normalizeCustomerThrows(Ticket(r)) =>
        LET c == normalizeCustomer(Ticket(r))
            line == calls[r][i].line
        IN /\ line = UnknownCustomer <=> (c.name = EmptyStr /\ c.email = EmptyStr)
           /\ c.name # EmptyStr => IsPrefix(Interpolate(c.name), line.s)
           /\ c.name = EmptyStr /\ c.email # EmptyStr
                => IsPrefix(Interpolate(c.email), line.s)

\* C20: in every PipelineResult, response_preview and message_preview are at
\* most 180 characters long, the first a prefix of the resolved response and
\* the second a prefix of the text of the first message (its body, else its
\* text).
C20_PreviewsBoundedPrefixes ==
  \A r \in Runs :
    pc[r] = "done" =>
      /\ Len(result[r].summary.response_preview) <= 180
      /\ IsPrefix(result[r].summary.response_preview, Or(aiResponse[r], EmptyStr).s)
      /\ Len(result[r].summary.message_preview) <= 180
      /\ IsPrefix(result[r].summary.message_preview,
                  ToStr(FirstMessageRaw(Ticket(r))).s)

\* A result for a response and a first message body of 181 characters: both
\* previews are cut to 180.
C20_Witness ==
  \E r \in Runs :
    /\ pc[r] = "done"
    /\ Len(aiResponse[r].s) > 180
    /\ Len(FirstMessageRaw(Ticket(r)).s) > 180
    /\ Len(result[r].summary.response_preview) = 180
    /\ Len(result[r].summary.message_preview) = 180

\* C21: the response preview in the chat message is never longer than 200
\* characters, whatever the length of the response, and the customer-message
\* excerpt in the chat message is never longer than 500 characters.
C21_ChatPreviewAndExcerptBounded ==
  \A r \in Runs :
    \A i \in CallsOf(r, "parent") :
      /\ calls[r][i].preview # NULL => Len(calls[r][i].preview.s) <= 200
      /\ Len(calls[r][i].excerpt.s) <= 500

\* The positions of the parts that are text/plain and carry data.
PlainParts(p) == {i \in 1..Len(p.parts) : PlainWithData(p.parts[i])}

\* The least position of a set of positions.
First(positions) == CHOOSE i \in positions : \A j \in positions : i <= j

\* C22: with parts, extractEmailBody returns the decoding of the first part in
\* order that is text/plain and carries data, whatever the top-level body; with
\* no parts, the decoding of the top-level body data; in every other case,
\* parts without a matching part included, exactly "No content available".
C22_FirstPlainPartElseBodyElseSentinel ==
  emailBody # NULL =>
    emailBody =
      IF ~payload.nul /\ payload.hasParts /\ PlainParts(payload) # {}
        THEN Str(Base64Decode(payload.parts[First(PlainParts(payload))].data.s))
      ELSE IF ~payload.nul /\ ~payload.hasParts /\ Truthy(payload.data)
        THEN Str(Base64Decode(payload.data.s))
      ELSE NoContent

\* An HTML part with data ahead of two plain parts with data, and a top-level
\* body with data: the first of the two plain parts is decoded.
C22_Witness ==
  /\ Len(payload.parts) = 3
  /\ payload.parts[1] = [mimeType |-> "text/html", data |-> Str(<<"a", "G", "k", "=">>)]
  /\ payload.parts[2] = [mimeType |-> "text/plain", data |-> Str(<<"b", "2", "s", "=">>)]
  /\ payload.parts[3] = [mimeType |-> "text/plain", data |-> Str(<<"a", "G", "k", "=">>)]
  /\ Truthy(payload.data)
  /\ emailBody = Str(<<"o", "k">>)

\* Everything run r holds.
Local(r) ==
  <<request[r], pc[r], customer[r], aiResponse[r], threadTs[r], slackInfo[r], err[r],
    nerr[r], result[r], rejection[r], calls[r], trace[r], http[r]>>

\* The requests of run r without the timestamps the chat service chose.
CallsSansTs(r) ==
  [i \in 1..Len(calls[r]) |-> [calls[r][i] EXCEPT !.ts = 0, !.thread_ts = 0]]

\* What run r has reached, returned or rejected with, and requested, apart
\* from the timestamps the chat service chose.
Observable(r) ==
  <<pc[r], customer[r], slackInfo[r].nul, err[r], nerr[r], rejection[r], trace[r],
    CallsSansTs(r),
    IF pc[r] = "done" THEN [result[r] EXCEPT !.slack.ts = 0] ELSE NoResult>>

\* The two runs stand at the same statement after the same outcomes of their
\* external calls.
SameOutcomes(r1, r2) ==
  /\ request[r1] = request[r2]
  /\ pc[r1] = pc[r2]
  /\ aiResponse[r1] = aiResponse[r2]
  /\ Len(calls[r1]) = Len(calls[r2])
  /\ \A i \in 1..Len(calls[r1]) : calls[r1][i].status = calls[r2][i].status

\* In every state: what a run has done depends on its own request and on the
\* outcomes of its own external calls only, however the other run was
\* interleaved with it (before, after or in between).
RunsAgree ==
  /\ \A r1, r2 \in Runs : SameOutcomes(r1, r2) => Observable(r1) = Observable(r2)
  /\ \A r \in Runs :
       /\ ThreadReplyShape(r)
       /\ \A i \in CallsOf(r, "send") \cup CallsOf(r, "thread") :
            calls[r][i].text = aiResponse[r]
       /\ ~slackInfo[r].nul => \E j \in ParentsPosted(r) : slackInfo[r].ts = calls[r][j].ts
       /\ pc[r] = "done" =>
            result[r] = PipelineResult(variant, request[r], customer[r], aiResponse[r],
                                       slackInfo[r])
       /\ pc[r] = "rejected" => rejection[r] = err[r]

\* In every step: one run moves and nothing that another run holds changes.
OneRunMoves == \E r \in Runs : \A r2 \in Runs \ {r} : Local(r2)' = Local(r2)

\* C23: two runs of processTicket interleaved at their external calls are
\* independent: a step of one changes nothing the other holds, each run's
\* result (or rejection) and its sequence of external calls are those its own
\* request and its own calls' outcomes determine, and each thread reply is
\* keyed to the timestamp of its own run's parent post, never the other's.
C23_ConcurrentRunsIndependent == []RunsAgree /\ [][OneRunMoves]_vars

\* Both runs have completed with a thread reply each; the second run's parent
\* was posted between the first run's parent and the first run's reply.
C23_Witness ==
  \E r1, r2 \in Runs :
    \E i \in CallsOf(r1, "thread"), j \in ParentsPosted(r1), k \in ParentsPosted(r2) :
      /\ r1 # r2
      /\ pc[r1] = "done" /\ pc[r2] = "done"
      /\ CallsOf(r2, "thread") # {}
      /\ calls[r1][j].ts < calls[r2][k].ts /\ calls[r2][k].ts < calls[r1][i].ts
      /\ result[r1].slack.ts = calls[r1][j].ts
      /\ result[r2].slack.ts = calls[r2][k].ts

\* C24: POST /process-ticket answers 500 if and only if processTicket
\* rejected; otherwise, absorbed failures of the document, e-mail and chat
\* calls included, it answers 200 with the PipelineResult, whose ok is true.
C24_Http500IffRejected ==
  \A r \in Runs :
    http[r] # 0 =>
      /\ request[r].via = "http"
      /\ http[r] \in {200, 500}
      /\ http[r] = 500 <=> pc[r] = "rejected"
      /\ http[r] = 200 <=> pc[r] = "done"
      /\ http[r] = 200 => result[r].ok

\* A request answered 200 although its append, its send and its parent post
\* failed.
C24_Witness ==
  \E r \in Runs :
    /\ http[r] = 200
    /\ Failed(r, {"append"}) # {} /\ Failed(r, {"send"}) # {}
    /\ Failed(r, {"parent"}) # {}
    /\ result[r].slack.nul

\* C25: without GOOGLE_DOC_ID, storeTicketInDoc requests nothing of the
\* document API and raises nothing, for every ticket, and the run goes on to
\* the knowledge-base step.
C25_NoDocIdSkipsAppend ==
  \A r \in Runs :
    ~docId =>
      /\ CallsOf(r, "append") = {}
      /\ err[r].site # "storeTicketInDoc"
      /\ StepsOf(r, "doc") # {} => (pc[r] = "kb" \/ StepsOf(r, "kb") # {})

\* Without GOOGLE_DOC_ID, a ticket on which the step would raise with it (a
\* null message entry, or no ticket at all) has passed the step.
C25_Witness ==
  \E r \in Runs :
    /\ ~docId
    /\ StoreDocThrows(Ticket(r))
    /\ StepsOf(r, "doc") # {}
    /\ StepsOf(r, "kb") # {}

\* C26: a run that rejects has sent no e-mail to the customer and posted no
\* chat message of the success shape.
C26_RejectedRunDeliveredNothing ==
  \A r \in Runs :
    pc[r] = "rejected" =>
      /\ \A i \in CallsOf(r, "send") : calls[r][i].status # "ok"
      /\ ParentsPosted(r) = {}

(***************************************************************************)
(* Progress.  The event loop runs the continuation of a run as soon as the *)
(* promise it awaits has settled, so the synchronous steps of a run are    *)
(* weakly fair.  Nothing in the code bounds the time an external call      *)
(* takes (no timeout, no cancellation), so the returns of the calls are    *)
(* not fair: a call may stay pending for ever.                             *)
(***************************************************************************)
\* The steps run r takes by itself: every stretch of synchronous code of
\* processTicket and of the route.
Continue(r) ==
  \/ Begin(r)
  \/ StoreTicketInDoc(r)
  \/ GetKnowledgeBaseContext(r)
  \/ ResolveResponse(r)
  \/ SendGmailResponse(r)
  \/ NotifySlackChannel(r)
  \/ UpdateKnowledgeBase(r)
  \/ ReturnResult(r)
  \/ CatchNotify(r)
  \/ Rethrow(r)
  \/ Respond(r)

SpecFair == Init /\ [][Next]_vars /\ \A r \in Runs : WF_vars(Continue(r))

\* Run r stands at an await of an external call.
Awaiting(r) ==
  pc[r] \in {"awaitDocs", "awaitOpenAI", "awaitGmail", "awaitSlackParent",
            "awaitSlackThread", "awaitSlackError"}

\* The external call run r made last has neither returned nor failed.
Pending(r) ==
  /\ calls[r] # <<>>
  /\ calls[r][Len(calls[r])].status = "pending"

\* processTicket was called for run r.
Started(r) == pc[r] # "idle"

\* The promise of run r is settled: resolved with the PipelineResult, or rejected.
Terminated(r) == pc[r] \in {"done", "rejected"}

\* Run r waits from this state to the next on one and the same call.
StillPending(r) ==
  /\ Pending(r)
  /\ Pending(r)'
  /\ Len(calls[r])' = Len(calls[r])

\* C27: a run of processTicket all of whose external calls eventually return
\* or fail terminates, resolved with a PipelineResult or rejected; a run
\* stands at an await exactly while its last call is pending, takes no step
\* as long as that call stays pending, and is not terminated meanwhile.
C27_TerminatesIfCallsReturn ==
  /\ \A r \in Runs : ([]<>~Pending(r)) => (Started(r) ~> Terminated(r))
  /\ [](\A r \in Runs : /\ Pending(r) <=> Awaiting(r)
                        /\ Pending(r) => ~Terminated(r)
                        /\ pc[r] = "done" => result[r].ok
                        /\ pc[r] = "rejected" => rejection[r] # NoError)
  /\ [][\A r \in Runs : StillPending(r) => UNCHANGED Local(r)]_vars

\* A run resolved after its append, its completion, its send, its parent post
\* and its thread reply each returned or failed; and a run rejected after its
\* error notification returned.
C27_Witness ==
  \E r \in Runs :
    /\ Terminated(r)
    /\ ~Pending(r)
    /\ \/ /\ pc[r] = "done"
          /\ \A k \in {"append", "complete", "send", "parent", "thread"} :
                CallsOf(r, k) # {}
       \/ /\ pc[r] = "rejected"
          /\ CallsOf(r, "error") # {}
          /\ CallsOf(r, "append") # {}

====
